---- MODULE Spec2Model ----
(***************************************************************************)
(* A model of extras/onewire/onewire.c: the 1-Wire bit/byte transport, the *)
(* bus reset, the ROM search and the CRC codecs.                           *)
(*                                                                         *)
(* Every operation of the driver is a synchronous busy-wait sequence, so   *)
(* an operation is one action.  What an operation does on the pin is kept  *)
(* as the list of its pin driver, delay and critical-section calls, in     *)
(* program order (the variable log), with one marker in front of every     *)
(* reset, byte and bit slot.                                               *)
(***************************************************************************)
EXTENDS Integers, Sequences, FiniteSets

(***************************************************************************)
(* Bounds of the model.                                                    *)
(***************************************************************************)
\* the largest number of devices on the simulated bus
MaxDevices == 2
\* the largest number of onewire_search_next calls recorded after a
\* onewire_search_start / onewire_search_prefix: enough for every device,
\* the "no device" after the last one and one more call
MaxCalls == MaxDevices + 2

(***************************************************************************)
(* Unsigned arithmetic on C integers.                                      *)
(***************************************************************************)
RECURSIVE BitAnd(_, _)
BitAnd(a, b) ==
    IF a = 0 \/ b = 0 THEN 0
    ELSE (IF a % 2 = 1 /\ b % 2 = 1 THEN 1 ELSE 0) + 2 * BitAnd(a \div 2, b \div 2)

RECURSIVE BitOr(_, _)
BitOr(a, b) ==
    IF a = 0 THEN b
    ELSE IF b = 0 THEN a
    ELSE (IF a % 2 = 1 \/ b % 2 = 1 THEN 1 ELSE 0) + 2 * BitOr(a \div 2, b \div 2)

RECURSIVE BitXor(_, _)
BitXor(a, b) ==
    IF a = 0 THEN b
    ELSE IF b = 0 THEN a
    ELSE ((a + b) % 2) + 2 * BitXor(a \div 2, b \div 2)

\* ~m on a uint8_t operand, as used in  x &= ~m
Not8(m) == 255 - m

\* x << 1 stored into a uint8_t / unsigned char
Shl8(x) == (x * 2) % 256

(***************************************************************************)
(* The pin log.                                                            *)
(***************************************************************************)
Ev(e, a) == [ev |-> e, arg |-> a]

\* the calls of the log with the given name
Only(l, e) == SelectSeq(l, LAMBDA x : x.ev = e)

\* the arguments of a log
Args(l) == [i \in 1..Len(l) |-> l[i].arg]

(***************************************************************************)
(* Bit/byte transport.                                                     *)
(***************************************************************************)
\* onewire_write_bit with the 0 slot cut to the length of the 1 slot
onewire_write_bit_EqualSlots(v) ==
    IF BitAnd(v, 1) # 0
    THEN << Ev("write_bit", 1),
            Ev("noInterrupts", 0),
            Ev("gpio_write", 0),
            Ev("delay_us", 10),
            Ev("gpio_write", 1),
            Ev("interrupts", 0),
            Ev("delay_us", 55) >>
    ELSE << Ev("write_bit", 0),
            Ev("noInterrupts", 0),
            Ev("gpio_write", 0),
            Ev("delay_us", 60),
            Ev("gpio_write", 1),
            Ev("interrupts", 0),
            Ev("delay_us", 5) >>

\* static void onewire_write_bit(uint8_t pin, uint8_t v)
onewire_write_bit(v) ==
    IF BitAnd(v, 1) # 0
    THEN << Ev("write_bit", 1),
            Ev("noInterrupts", 0),
            Ev("gpio_write", 0),
            Ev("delay_us", 10),
            Ev("gpio_write", 1),
            Ev("interrupts", 0),
            Ev("delay_us", 55) >>
    ELSE << Ev("write_bit", 0),
            Ev("noInterrupts", 0),
            Ev("gpio_write", 0),
            Ev("delay_us", 65),
            Ev("gpio_write", 1),
            Ev("interrupts", 0),
            Ev("delay_us", 5) >>

\* onewire_read_bit with preemption allowed again before the sample
onewire_read_bit_SampleOutside(level) ==
    [ log |-> << Ev("read_bit", level),
                 Ev("noInterrupts", 0),
                 Ev("gpio_write", 0),
                 Ev("delay_us", 3),
                 Ev("gpio_write", 1),
                 Ev("interrupts", 0),
                 Ev("delay_us", 10),
                 Ev("gpio_read", level),
                 Ev("delay_us", 53) >>,
      r |-> level ]

\* static uint8_t onewire_read_bit(uint8_t pin); level is what gpio_read
\* finds on the line at the sampling point
onewire_read_bit(level) ==
    [ log |-> << Ev("read_bit", level),
                 Ev("noInterrupts", 0),
                 Ev("gpio_write", 0),
                 Ev("delay_us", 3),
                 Ev("gpio_write", 1),
                 Ev("delay_us", 10),
                 Ev("gpio_read", level),
                 Ev("interrupts", 0),
                 Ev("delay_us", 53) >>,
      r |-> level ]

\* the loop of onewire_write:  for (bitMask = 0x01; bitMask; bitMask <<= 1)
RECURSIVE WriteLoop(_, _)
WriteLoop(bitMask, v) ==
    IF bitMask = 0 THEN << >>
    ELSE onewire_write_bit(IF BitAnd(bitMask, v) # 0 THEN 1 ELSE 0)
            \o WriteLoop(Shl8(bitMask), v)

\* onewire_write with the most significant bit first
RECURSIVE WriteLoopDown(_, _)
WriteLoopDown(bitMask, v) ==
    IF bitMask = 0 THEN << >>
    ELSE onewire_write_bit(IF BitAnd(bitMask, v) # 0 THEN 1 ELSE 0)
            \o WriteLoopDown(bitMask \div 2, v)

onewire_write_MsbFirst(v) == << Ev("write", v) >> \o WriteLoopDown(128, v)

\* void onewire_write(uint8_t pin, uint8_t v)
onewire_write(v) == << Ev("write", v) >> \o WriteLoop(1, v)

\* the loop of onewire_read; levels are the line levels of the coming
\* read slots, the first one first
RECURSIVE ReadLoop(_, _, _)
ReadLoop(bitMask, r, levels) ==
    IF bitMask = 0 THEN [log |-> << >>, r |-> r]
    ELSE LET b == onewire_read_bit(Head(levels))
             rest == ReadLoop(Shl8(bitMask),
                              IF b.r # 0 THEN BitOr(r, bitMask) ELSE r,
                              Tail(levels))
         IN  [log |-> b.log \o rest.log, r |-> rest.r]

\* uint8_t onewire_read(uint8_t pin)
onewire_read(levels) ==
    LET l == ReadLoop(1, 0, levels)
    IN  [log |-> << Ev("read", l.r) >> \o l.log, r |-> l.r]

(***************************************************************************)
(* Bus control.                                                            *)
(***************************************************************************)
\* uint8_t retries = 125;
RETRIES == 125

\* the idle wait of onewire_reset:
\*   do { if (--retries == 0) return 0; delay(2); } while (!gpio_read(pin));
\* busy is the number of coming polls that find the line low.  Round i of
\* the loop (i = 1, 2, ..) leaves the function when retries - i = 0, and
\* otherwise delays and polls; the poll of round i finds the line high when
\* i > busy.  IdleRounds is the number of rounds that poll.
IdleRounds(retries, busy) ==
    IF busy + 1 < retries THEN busy + 1 ELSE retries - 1

\* the idle wait without its bound:  do { delay(2); } while (!gpio_read(pin));
IdleWait_NoBound(retries, busy) ==
    [log |-> [k \in 1..(2 * (busy + 1)) |->
                IF k % 2 = 1 THEN Ev("delay_us", 2)
                ELSE Ev("gpio_read", IF k \div 2 > busy THEN 1 ELSE 0)],
     idle |-> TRUE]

IdleWait(retries, busy) ==
    LET n == IdleRounds(retries, busy)
    IN  [log |-> [k \in 1..(2 * n) |->
                    IF k % 2 = 1 THEN Ev("delay_us", 2)
                    ELSE Ev("gpio_read", IF k \div 2 > busy THEN 1 ELSE 0)],
         idle |-> busy + 1 < retries]

\* onewire_reset that returns at once when it samples no presence
onewire_reset_NoRecovery(busy, level) ==
    LET w == IdleWait(RETRIES, busy)
        head == << Ev("gpio_enable_open_drain", 0),
                   Ev("gpio_write", 1) >> \o w.log
        r == IF level = 0 THEN 1 ELSE 0
        pulse == << Ev("gpio_write", 0),
                    Ev("delay_us", 480),
                    Ev("noInterrupts", 0),
                    Ev("gpio_write", 1),
                    Ev("delay_us", 70),
                    Ev("gpio_read", level),
                    Ev("interrupts", 0) >>
    IN  IF ~w.idle
        THEN [log |-> << Ev("reset", 0) >> \o head, r |-> 0]
        ELSE [log |-> << Ev("reset", r) >> \o head \o pulse \o
                      (IF r = 0 THEN << >> ELSE << Ev("delay_us", 410) >>),
              r |-> r]

\* onewire_reset with the sample returned as it is read (r = gpio_read(pin))
onewire_reset_NotInverted(busy, level) ==
    LET w == IdleWait(RETRIES, busy)
        head == << Ev("gpio_enable_open_drain", 0),
                   Ev("gpio_write", 1) >> \o w.log
    IN  IF ~w.idle
        THEN [log |-> << Ev("reset", 0) >> \o head, r |-> 0]
        ELSE [log |-> << Ev("reset", level) >> \o head \o
                      << Ev("gpio_write", 0),
                         Ev("delay_us", 480),
                         Ev("noInterrupts", 0),
                         Ev("gpio_write", 1),
                         Ev("delay_us", 70),
                         Ev("gpio_read", level),
                         Ev("interrupts", 0),
                         Ev("delay_us", 410) >>,
              r |-> level]

\* uint8_t onewire_reset(uint8_t pin); busy as in IdleWait, level is the
\* line level 70us after the release (0: a device holds the line low).  The
\* marker of the reset carries the value returned
onewire_reset(busy, level) ==
    LET w == IdleWait(RETRIES, busy)
        head == << Ev("gpio_enable_open_drain", 0),
                   Ev("gpio_write", 1) >> \o w.log
        r == IF level = 0 THEN 1 ELSE 0
    IN  IF ~w.idle
        THEN [log |-> << Ev("reset", 0) >> \o head, r |-> 0]
        ELSE [log |-> << Ev("reset", r) >> \o head \o
                      << Ev("gpio_write", 0),
                         Ev("delay_us", 480),
                         Ev("noInterrupts", 0),
                         Ev("gpio_write", 1),
                         Ev("delay_us", 70),
                         Ev("gpio_read", level),
                         Ev("interrupts", 0),
                         Ev("delay_us", 410) >>,
              r |-> r]

(***************************************************************************)
(* 64-bit addresses.  An onewire_addr_t is kept as its eight base-256      *)
(* digits, the most significant one first.                                 *)
(***************************************************************************)
\* the number of bytes of a ROM address:  rom_no[8]
ROM_BYTES == 8

AddrZero == [i \in 1..ROM_BYTES |-> 0]

\* (addr << 8) | byte on a uint64_t
AddrShl8Or(addr, byte) == Tail(addr) \o << byte >>

\* rom & 0xff
AddrLowByte(addr) == addr[ROM_BYTES]

\* rom >> 8 on a uint64_t
AddrShr8(addr) == << 0 >> \o SubSeq(addr, 1, ROM_BYTES - 1)

\* onewire.h: the value onewire_search_next returns for "no device"
ONEWIRE_NONE == [i \in 1..ROM_BYTES |-> 255]

(***************************************************************************)
(* ROM commands.                                                           *)
(***************************************************************************)
\* the loop of onewire_select:  for (i = 0; i < 8; i++) { ... }
\* st holds i, rom and the log
RECURSIVE SelectLoop(_)
SelectLoop(st) ==
    IF ~(st.i < 8) THEN st.log
    ELSE SelectLoop([i   |-> st.i + 1,
                     rom |-> AddrShr8(st.rom),
                     log |-> st.log \o onewire_write(AddrLowByte(st.rom))])

\* onewire_select that sends the most significant byte of the address first
onewire_select_MsbFirst(rom) ==
    LET RECURSIVE Down(_)
        Down(st) == IF ~(st.i < 8) THEN st.log
                    ELSE Down([i   |-> st.i + 1,
                               rom |-> Tail(st.rom) \o << 0 >>,
                               log |-> st.log \o onewire_write(Head(st.rom))])
    IN  Down([i |-> 0, rom |-> rom, log |-> onewire_write(85)])

\* void onewire_select(uint8_t pin, onewire_addr_t rom)
onewire_select(rom) == SelectLoop([i |-> 0, rom |-> rom, log |-> onewire_write(85)])

\* void onewire_skip_rom(uint8_t pin)
onewire_skip_rom == onewire_write(204)

(***************************************************************************)
(* The devices on the bus.  A device answers the two read slots of bit     *)
(* position n (1 is the least significant bit of its address) with that    *)
(* bit and its complement, and stops answering for the rest of the walk    *)
(* when the direction bit written back differs from its own.  The line is  *)
(* a wired AND: it reads 0 when any device drives it low.                  *)
(***************************************************************************)
Pow2(k) == IF k = 0 THEN 1 ELSE IF k = 1 THEN 2 ELSE IF k = 2 THEN 4
           ELSE IF k = 3 THEN 8 ELSE IF k = 4 THEN 16 ELSE IF k = 5 THEN 32
           ELSE IF k = 6 THEN 64 ELSE 128

\* bit n (1..64) of a 64-bit address
DeviceBit(addr, n) ==
    (addr[ROM_BYTES - ((n - 1) \div 8)] \div Pow2((n - 1) % 8)) % 2

IdLevel(sel, n)  == IF \E d \in sel : DeviceBit(d, n) = 0 THEN 0 ELSE 1
CmpLevel(sel, n) == IF \E d \in sel : DeviceBit(d, n) = 1 THEN 0 ELSE 1

\* the devices still answering after direction dir was written at position n
StillSelected(sel, n, dir) == {d \in sel : DeviceBit(d, n) = dir}

(***************************************************************************)
(* Device search.                                                          *)
(***************************************************************************)
\* void onewire_search_start(onewire_search_t *search):  memset(search, 0, ..)
onewire_search_start ==
    [rom_no |-> [i \in 1..ROM_BYTES |-> 0],
     last_discrepancy |-> 0,
     last_device_found |-> FALSE]

\* onewire_search_prefix that leaves last_discrepancy at 0
onewire_search_prefix_NoDiscrepancy(family_code) ==
    [rom_no |-> [i \in 1..ROM_BYTES |-> IF i = 1 THEN family_code ELSE 0],
     last_discrepancy |-> 0,
     last_device_found |-> FALSE]

\* void onewire_search_prefix(onewire_search_t *search, uint8_t family_code)
onewire_search_prefix(family_code) ==
    [rom_no |-> [i \in 1..ROM_BYTES |-> IF i = 1 THEN family_code ELSE 0],
     last_discrepancy |-> 64,
     last_device_found |-> FALSE]

\* DiscrepancyDirection with the last discrepancy replayed too (<= for <)
DiscrepancyDirection_ReplayLast(search, id_bit_number, rom_byte_number, rom_byte_mask) ==
    IF id_bit_number <= search.last_discrepancy
    THEN (IF BitAnd(search.rom_no[rom_byte_number + 1], rom_byte_mask) > 0 THEN 1 ELSE 0)
    ELSE (IF id_bit_number = search.last_discrepancy THEN 1 ELSE 0)

\* the direction taken at a discrepancy (id_bit = cmp_id_bit = 0)
DiscrepancyDirection(search, id_bit_number, rom_byte_number, rom_byte_mask) ==
    IF id_bit_number < search.last_discrepancy
    THEN (IF BitAnd(search.rom_no[rom_byte_number + 1], rom_byte_mask) > 0 THEN 1 ELSE 0)
    ELSE (IF id_bit_number = search.last_discrepancy THEN 1 ELSE 0)

\* rom_no after the direction bit is stored
StoreBit(rom_no, rom_byte_number, rom_byte_mask, search_direction) ==
    [rom_no EXCEPT ![rom_byte_number + 1] =
        IF search_direction = 1
        THEN BitOr(@, rom_byte_mask)
        ELSE BitAnd(@, Not8(rom_byte_mask))]

\* one round of the do ... while loop of onewire_search_next.  st.w holds
\* the locals, the search state and the log; st.sel is the set of devices
\* still answering; st.stop tells that the round left the loop by break;
\* dropAt is the bit position from which no device answers any more (0: they
\* all answer to the end)
SearchBit(st, dropAt) ==
    LET w   == st.w
        now == IF w.id_bit_number = dropAt THEN {} ELSE st.sel
        id  == onewire_read_bit(IdLevel(now, w.id_bit_number))
        cmp == onewire_read_bit(CmpLevel(now, w.id_bit_number))
        id_bit == id.r
        cmp_id_bit == cmp.r
        log1 == w.log \o id.log \o cmp.log
    IN  IF id_bit = 1 /\ cmp_id_bit = 1
        THEN [w |-> [w EXCEPT !.log = log1], sel |-> now, stop |-> TRUE]
        ELSE LET atDiscrepancy == (id_bit = cmp_id_bit)
                 search_direction ==
                     IF id_bit # cmp_id_bit
                     THEN id_bit
                     ELSE DiscrepancyDirection(w.search, w.id_bit_number,
                                               w.rom_byte_number, w.rom_byte_mask)
                 last_zero == IF atDiscrepancy /\ search_direction = 0
                              THEN w.id_bit_number ELSE w.last_zero
                 rom_no == StoreBit(w.search.rom_no, w.rom_byte_number,
                                    w.rom_byte_mask, search_direction)
                 mask1 == Shl8(w.rom_byte_mask)
             IN  [w |-> [id_bit_number |-> w.id_bit_number + 1,
                         last_zero |-> last_zero,
                         rom_byte_number |-> IF mask1 = 0 THEN w.rom_byte_number + 1
                                             ELSE w.rom_byte_number,
                         rom_byte_mask |-> IF mask1 = 0 THEN 1 ELSE mask1,
                         search |-> [w.search EXCEPT !.rom_no = rom_no],
                         log |-> log1 \o onewire_write_bit(search_direction)],
                  sel |-> StillSelected(now, w.id_bit_number, search_direction),
                  stop |-> FALSE]

\* the rounds of the loop up to the one that moves on to the next ROM byte
\* (rom_byte_mask is 1 again) or leaves the loop by break
RECURSIVE SearchByte(_, _)
\* after a round that gave st1: the loop goes on within the byte or not
SearchByteNext(st1, dropAt) ==
    IF st1.stop \/ st1.w.rom_byte_mask = 1 THEN st1 ELSE SearchByte(st1, dropAt)

SearchByte(st, dropAt) == SearchByteNext(SearchBit(st, dropAt), dropAt)

\* the do ... while (rom_byte_number < 8) loop of onewire_search_next
RECURSIVE SearchLoop(_, _)
\* after the rounds of a byte that gave st1:  while (rom_byte_number < 8)
SearchLoopNext(st1, dropAt) ==
    IF st1.stop \/ ~(st1.w.rom_byte_number < ROM_BYTES) THEN st1.w
    ELSE SearchLoop(st1, dropAt)

SearchLoop(st, dropAt) == SearchLoopNext(SearchByte(st, dropAt), dropAt)

\* AssembleAddr that takes the bytes of the ROM buffer from byte 0 up, so
\* that byte 0 ends as the most significant byte of the address
RECURSIVE AssembleAddr_Forward(_, _, _)
AssembleAddr_Forward(addr, rom_no, rom_byte_number) ==
    IF rom_byte_number < 0 THEN addr
    ELSE AssembleAddr_Forward(AddrShl8Or(addr, rom_no[ROM_BYTES - rom_byte_number]),
                              rom_no, rom_byte_number - 1)

\* the address assembled from the ROM buffer:
\*   for (rom_byte_number = 7; rom_byte_number >= 0; rom_byte_number--)
\*       addr = (addr << 8) | search->rom_no[rom_byte_number];
RECURSIVE AssembleAddr(_, _, _)
AssembleAddr(addr, rom_no, rom_byte_number) ==
    IF rom_byte_number < 0 THEN addr
    ELSE AssembleAddr(AddrShl8Or(addr, rom_no[rom_byte_number + 1]), rom_no,
                      rom_byte_number - 1)

\* SearchReturn that leaves last_device_found as it is
SearchReturn_KeepFound(search, search_result, log) ==
    IF search_result = 0 \/ search.rom_no[1] = 0
    THEN [search |-> [search EXCEPT !.last_discrepancy = 0],
          addr |-> ONEWIRE_NONE,
          search_result |-> search_result,
          log |-> log]
    ELSE [search |-> search,
          addr |-> AssembleAddr(AddrZero, search.rom_no, ROM_BYTES - 1),
          search_result |-> search_result,
          log |-> log]

\* SearchReturn that leaves last_discrepancy as it is
SearchReturn_KeepDiscrepancy(search, search_result, log) ==
    IF search_result = 0 \/ search.rom_no[1] = 0
    THEN [search |-> [search EXCEPT !.last_device_found = FALSE],
          addr |-> ONEWIRE_NONE,
          search_result |-> search_result,
          log |-> log]
    ELSE [search |-> search,
          addr |-> AssembleAddr(AddrZero, search.rom_no, ROM_BYTES - 1),
          search_result |-> search_result,
          log |-> log]

\* SearchReturn without the test of the family code
SearchReturn_NoFamilyCheck(search, search_result, log) ==
    IF search_result = 0
    THEN [search |-> [search EXCEPT !.last_discrepancy = 0,
                                    !.last_device_found = FALSE],
          addr |-> ONEWIRE_NONE,
          search_result |-> search_result,
          log |-> log]
    ELSE [search |-> search,
          addr |-> AssembleAddr(AddrZero, search.rom_no, ROM_BYTES - 1),
          search_result |-> search_result,
          log |-> log]

\* SearchReturn without the reset of the counters
SearchReturn_NoReset(search, search_result, log) ==
    IF search_result = 0 \/ search.rom_no[1] = 0
    THEN [search |-> search,
          addr |-> ONEWIRE_NONE,
          search_result |-> search_result,
          log |-> log]
    ELSE [search |-> search,
          addr |-> AssembleAddr(AddrZero, search.rom_no, ROM_BYTES - 1),
          search_result |-> search_result,
          log |-> log]

\* the tail of onewire_search_next, from
\*   if (!search_result || !search->rom_no[0])
SearchReturn(search, search_result, log) ==
    IF search_result = 0 \/ search.rom_no[1] = 0
    THEN [search |-> [search EXCEPT !.last_discrepancy = 0,
                                    !.last_device_found = FALSE],
          addr |-> ONEWIRE_NONE,
          search_result |-> search_result,
          log |-> log]
    ELSE [search |-> search,
          addr |-> AssembleAddr(AddrZero, search.rom_no, ROM_BYTES - 1),
          search_result |-> search_result,
          log |-> log]

\* AfterWalk that keeps the bit counter as the last discrepancy
AfterWalk_BitNumber(w) ==
    IF ~(w.id_bit_number < 65)
    THEN [search |-> [w.search EXCEPT
                        !.last_discrepancy = w.id_bit_number,
                        !.last_device_found = (w.last_zero = 0)],
          search_result |-> 1]
    ELSE [search |-> w.search, search_result |-> 0]

\* AfterWalk without the check for the last device
AfterWalk_NeverLast(w) ==
    IF ~(w.id_bit_number < 65)
    THEN [search |-> [w.search EXCEPT !.last_discrepancy = w.last_zero],
          search_result |-> 1]
    ELSE [search |-> w.search, search_result |-> 0]

\* AfterWalk that takes a walk stopped at the last position for a whole one
AfterWalk_OffByOne(w) ==
    IF ~(w.id_bit_number < 64)
    THEN [search |-> [w.search EXCEPT
                        !.last_discrepancy = w.last_zero,
                        !.last_device_found = (w.last_zero = 0)],
          search_result |-> 1]
    ELSE [search |-> w.search, search_result |-> 0]

\* the search state after a walk:  if (!(id_bit_number < 65)) { ... }
AfterWalk(w) ==
    IF ~(w.id_bit_number < 65)
    THEN [search |-> [w.search EXCEPT
                        !.last_discrepancy = w.last_zero,
                        !.last_device_found = (w.last_zero = 0)],
          search_result |-> 1]
    ELSE [search |-> w.search, search_result |-> 0]

\* the end of a call after the walk that gave the locals w: lines 273-303
WalkEnd(w) ==
    LET a == AfterWalk(w)
    IN  SearchReturn(a.search, a.search_result, w.log)

\* the call after the reset that gave rst: the return of lines 205-211, or
\* the command byte, the walk and the end of the call
WalkAfterReset(rst, search, devs, dropAt) ==
    IF rst.r = 0
    THEN [search |-> [search EXCEPT !.last_discrepancy = 0,
                                    !.last_device_found = FALSE],
          addr |-> ONEWIRE_NONE,
          search_result |-> 0,
          log |-> rst.log]
    ELSE WalkEnd(SearchLoop([w |-> [id_bit_number |-> 1,
                                    last_zero |-> 0,
                                    rom_byte_number |-> 0,
                                    rom_byte_mask |-> 1,
                                    search |-> search,
                                    log |-> rst.log \o onewire_write(240)],
                             sel |-> devs,
                             stop |-> FALSE],
                            dropAt))

\* the body of  if (!search->last_device_found) { ... }  and the return
\* after it, on a bus with the devices devs, whose line is low for the first
\* busy polls of the reset and whose devices stop answering at position dropAt
SearchWalk(search, devs, busy, dropAt) ==
    WalkAfterReset(onewire_reset(busy, IF devs = {} THEN 1 ELSE 0), search, devs, dropAt)

\* onewire_search_next that resets the bus before it looks at last_device_found
onewire_search_next_ResetFirst(search, devs, busy, dropAt) ==
    IF search.last_device_found
    THEN SearchReturn(search, 0, onewire_reset(busy, IF devs = {} THEN 1 ELSE 0).log)
    ELSE SearchWalk(search, devs, busy, dropAt)

\* onewire_addr_t onewire_search_next(onewire_search_t *search, uint8_t pin)
onewire_search_next(search, devs, busy, dropAt) ==
    IF search.last_device_found
    THEN SearchReturn(search, 0, << >>)
    ELSE SearchWalk(search, devs, busy, dropAt)

(***************************************************************************)
(* CRC-8.                                                                  *)
(***************************************************************************)
\* static const uint8_t dscrc_table[]
dscrc_table ==
    <<
         0,  94, 188, 226,  97,  63, 221, 131, 194, 156, 126,  32, 163, 253,  31,  65,
       157, 195,  33, 127, 252, 162,  64,  30,  95,   1, 227, 189,  62,  96, 130, 220,
        35, 125, 159, 193,  66,  28, 254, 160, 225, 191,  93,   3, 128, 222,  60,  98,
       190, 224,   2,  92, 223, 129,  99,  61, 124,  34, 192, 158,  29,  67, 161, 255,
        70,  24, 250, 164,  39, 121, 155, 197, 132, 218,  56, 102, 229, 187,  89,   7,
       219, 133, 103,  57, 186, 228,   6,  88,  25,  71, 165, 251, 120,  38, 196, 154,
       101,  59, 217, 135,   4,  90, 184, 230, 167, 249,  27,  69, 198, 152, 122,  36,
       248, 166,  68,  26, 153, 199,  37, 123,  58, 100, 134, 216,  91,   5, 231, 185,
       140, 210,  48, 110, 237, 179,  81,  15,  78,  16, 242, 172,  47, 113, 147, 205,
        17,  79, 173, 243, 112,  46, 204, 146, 211, 141, 111,  49, 178, 236,  14,  80,
       175, 241,  19,  77, 206, 144, 114,  44, 109,  51, 209, 143,  12,  82, 176, 238,
        50, 108, 142, 208,  83,  13, 239, 177, 240, 174,  76,  18, 145, 207,  45, 115,
       202, 148, 118,  40, 171, 245,  23,  73,   8,  86, 180, 234, 105,  55, 213, 139,
        87,   9, 235, 181,  54, 104, 138, 212, 149, 203,  41, 119, 244, 170,  72,  22,
       233, 183,  85,  11, 136, 214,  52, 106,  43, 117, 151, 201,  74,  20, 246, 168,
       116,  42, 200, 150,  21,  75, 169, 247, 182, 232,  10,  84, 215, 137, 107,  53
    >>

\* the table step that forgets the CRC of the bytes before
Crc8TableStep_NoCarry(crc, byte) == dscrc_table[byte + 1]

\* one round of the table-driven loop:  crc = dscrc_table[crc ^ *addr++]
Crc8TableStep(crc, byte) == dscrc_table[BitXor(crc, byte) + 1]

\* uint8_t onewire_crc8(const uint8_t *addr, uint8_t len), ONEWIRE_CRC8_TABLE set
\* st is the pair of crc and the bytes still to come
RECURSIVE Crc8TableLoop(_)
Crc8TableLoop(st) ==
    IF st[2] = << >> THEN st[1]
    ELSE Crc8TableLoop(<< Crc8TableStep(st[1], Head(st[2])), Tail(st[2]) >>)

onewire_crc8_table(addr) == Crc8TableLoop(<< 0, addr >>)

\* the polynomial of the bit loop:  if (mix) crc ^= 0x8C;
CRC8_POLY == 140

\* the inner loop of the bit-looped onewire_crc8:  for (i = 8; i; i--) { ... }
\* st is the triple of crc, inbyte and i
RECURSIVE Crc8BitRounds(_)
Crc8BitRounds(st) ==
    IF st[3] = 0 THEN st[1]
    ELSE LET mix == BitAnd(BitXor(st[1], st[2]), 1)
             crc1 == st[1] \div 2
         IN  Crc8BitRounds(<< IF mix # 0 THEN BitXor(crc1, CRC8_POLY) ELSE crc1,
                              st[2] \div 2, st[3] - 1 >>)

\* one byte of the bit-looped onewire_crc8
Crc8BitStep(crc, inbyte) == Crc8BitRounds(<< crc, inbyte, 8 >>)

\* uint8_t onewire_crc8(const uint8_t *addr, uint8_t len), ONEWIRE_CRC8_TABLE unset
RECURSIVE Crc8BitLoop(_)
Crc8BitLoop(st) ==
    IF st[2] = << >> THEN st[1]
    ELSE Crc8BitLoop(<< Crc8BitStep(st[1], Head(st[2])), Tail(st[2]) >>)

onewire_crc8_bitwise(addr) == Crc8BitLoop(<< 0, addr >>)

(***************************************************************************)
(* CRC-16.                                                                 *)
(***************************************************************************)
\* static const uint8_t oddparity[16]
oddparity == << 0, 1, 1, 0, 1, 0, 0, 1, 1, 0, 0, 1, 0, 1, 1, 0 >>

\* a value stored into a uint16_t
ToUint16(x) == x % 65536

\* Crc16Step without the fold of the byte shifted left by 7
Crc16Step_OneFold(crc, byte) ==
    LET cdata0 == BitAnd(BitXor(byte, crc), 255)
        crc1   == crc \div 256
        crc2   == IF BitXor(oddparity[BitAnd(cdata0, 15) + 1],
                            oddparity[(cdata0 \div 16) + 1]) # 0
                  THEN BitXor(crc1, 49153)
                  ELSE crc1
        cdata1 == ToUint16(cdata0 * 64)
    IN  BitXor(crc2, cdata1)

\* one round of the loop of onewire_crc16
Crc16Step(crc, byte) ==
    LET cdata0 == BitAnd(BitXor(byte, crc), 255)
        crc1   == crc \div 256
        crc2   == IF BitXor(oddparity[BitAnd(cdata0, 15) + 1],
                            oddparity[(cdata0 \div 16) + 1]) # 0
                  THEN BitXor(crc1, 49153)
                  ELSE crc1
        cdata1 == ToUint16(cdata0 * 64)
        crc3   == BitXor(crc2, cdata1)
        cdata2 == ToUint16(cdata1 * 2)
    IN  BitXor(crc3, cdata2)

\* the loop of onewire_crc16:  for (i = 0 ; i < len ; i++) { ... }
\* st is the pair of i and crc
RECURSIVE Crc16Loop(_, _, _)
Crc16Loop(st, input, len) ==
    IF ~(st[1] < len) THEN st[2]
    ELSE Crc16Loop(<< st[1] + 1, Crc16Step(st[2], input[st[1] + 1]) >>, input, len)

\* uint16_t onewire_crc16(const uint8_t* input, uint16_t len, uint16_t crc)
onewire_crc16(input, len, crc) == Crc16Loop(<< 0, crc >>, input, len)

\* onewire_check_crc16 with the two received bytes taken in the other order
onewire_check_crc16_Swapped(input, len, inverted_crc, crc) ==
    LET c == ToUint16(-onewire_crc16(input, len, crc) - 1)
    IN  BitAnd(c, 255) = inverted_crc[2] /\ (c \div 256) = inverted_crc[1]

\* bool onewire_check_crc16(const uint8_t* input, uint16_t len,
\*                          const uint8_t* inverted_crc, uint16_t crc)
\* ~ is taken of the int the uint16_t result is promoted to, and the
\* assignment to the uint16_t crc keeps the low 16 bits
onewire_check_crc16(input, len, inverted_crc, crc) ==
    LET c == ToUint16(-onewire_crc16(input, len, crc) - 1)
    IN  BitAnd(c, 255) = inverted_crc[1] /\ (c \div 256) = inverted_crc[2]

(***************************************************************************)
(* The simulated bus: the addresses a device may have.  An address is the  *)
(* family code (least significant byte), six serial bytes and the CRC-8 of *)
(* these seven bytes (most significant byte).                              *)
(***************************************************************************)
MkAddr(family, serial0, serial5) ==
    << onewire_crc8_bitwise(<< family, serial0, 0, 0, 0, 0, serial5 >>),
       serial5, 0, 0, 0, 0, serial0, family >>

Universe ==
    { MkAddr(40, 1, 0), MkAddr(40, 1, 128), MkAddr(40, 3, 0),
      MkAddr(16, 1, 0), MkAddr(0, 1, 0) }

Buses == {D \in SUBSET Universe : Cardinality(D) <= MaxDevices}

\* the number of line-low polls at a reset: the line idles at once, after one
\* poll, at the last poll of the bound, or not within the bound (it is low
\* for the polls the code makes, or for twice the bound)
BusyChoices == {0, 1, RETRIES - 2, RETRIES - 1, 2 * RETRIES}

\* the bit positions at which the devices may stop answering (0: never)
DropChoices == {0, 1, 9, 64}

(***************************************************************************)
(* The state.                                                              *)
(***************************************************************************)
VARIABLES
    search,     \* the caller's onewire_search_t
    devices,    \* the addresses of the devices on the bus
    origin,     \* how the enumeration was set up: "start" or "prefix"
    family,     \* the family code given to onewire_search_prefix
    results,    \* what the onewire_search_next calls returned since then
    disturbed,  \* a device stopped answering or the line was stuck in a call
                \* since then
    second,     \* a second caller: its onewire_search_t, the devices of its
                \* bus and what its onewire_search_next calls returned
    op,         \* the last operation
    arg,        \* its argument, or what the line gave it to read
    ret,        \* what it returned (0 for a void operation; the local
                \* search_result at the end of onewire_search_next, whose
                \* address goes to results)
    log         \* what it did on the pin

vars == << search, devices, origin, family, results, disturbed, second, op, arg, ret, log >>

\* a second caller that has not started
NoSecond == [search |-> onewire_search_start, devices |-> {}, results |-> << >>]

(***************************************************************************)
(* Enumerating a bus.                                                      *)
(***************************************************************************)
Init ==
    /\ devices \in Buses
    /\ search = onewire_search_start
    /\ origin = "start"
    /\ family = 0
    /\ results = << >>
    /\ disturbed = FALSE
    /\ second = NoSecond
    /\ op = "search_start"
    /\ arg = 0
    /\ ret = 0
    /\ log = << >>

SearchStart ==
    /\ search' = onewire_search_start
    /\ origin' = "start"
    /\ family' = 0
    /\ results' = << >>
    /\ disturbed' = FALSE
    /\ op' = "search_start"
    /\ arg' = 0
    /\ ret' = 0
    /\ log' = << >>
    /\ UNCHANGED << devices, second >>

SearchPrefix(family_code) ==
    /\ search' = onewire_search_prefix(family_code)
    /\ origin' = "prefix"
    /\ family' = family_code
    /\ results' = << >>
    /\ disturbed' = FALSE
    /\ op' = "search_prefix"
    /\ arg' = family_code
    /\ ret' = 0
    /\ log' = << >>
    /\ UNCHANGED << devices, second >>

\* what a call of onewire_search_next that gave r leaves to its caller
Returned(r) ==
    /\ search' = r.search
    /\ results' = Append(results, r.addr)
    /\ ret' = r.search_result
    /\ log' = r.log

\* one call of onewire_search_next.  The bus is disturbed in at most one
\* call of an enumeration, and then either the line is stuck (busy) or the
\* devices stop answering (dropAt)
SearchNext(busy, dropAt) ==
    /\ Len(results) < MaxCalls
    /\ (busy # 0 \/ dropAt # 0) => ~disturbed
    /\ busy = 0 \/ dropAt = 0
    /\ Returned(onewire_search_next(search, devices, busy, dropAt))
    /\ disturbed' = (disturbed \/ dropAt # 0 \/ busy # 0)
    /\ op' = "search_next"
    /\ arg' = << busy, dropAt >>
    /\ UNCHANGED << devices, origin, family, second >>

\* the family codes a caller asks for
PrefixChoices == {0, 16, 40}

Next ==
    \/ SearchStart
    \/ \E f \in PrefixChoices : SearchPrefix(f)
    \/ \E busy \in {0, RETRIES - 1}, dropAt \in DropChoices : SearchNext(busy, dropAt)

Spec == Init /\ [][Next]_vars

(***************************************************************************)
(* Two callers, each with a search state and a bus of its own, whose calls *)
(* of onewire_search_next come in any order, each call running to its end. *)
(***************************************************************************)
\* the devices of the two buses
TwoBuses ==
    { << {MkAddr(40, 1, 0), MkAddr(40, 3, 0)}, {MkAddr(40, 1, 0), MkAddr(16, 1, 0)} >>,
      << {MkAddr(40, 1, 0), MkAddr(40, 1, 128)}, {MkAddr(40, 1, 0), MkAddr(40, 1, 128)} >>,
      << {MkAddr(16, 1, 0)}, {} >>,
      << {}, {MkAddr(40, 3, 0), MkAddr(16, 1, 0)} >>,
      << {MkAddr(0, 1, 0), MkAddr(40, 1, 0)}, {MkAddr(40, 3, 0)} >> }

TwoInit ==
    /\ \E b \in TwoBuses :
          /\ devices = b[1]
          /\ second = [search |-> onewire_search_start, devices |-> b[2],
                       results |-> << >>]
    /\ search = onewire_search_start
    /\ origin = "start"
    /\ family = 0
    /\ results = << >>
    /\ disturbed = FALSE
    /\ op = "search_start"
    /\ arg = 0
    /\ ret = 0
    /\ log = << >>

\* a call of the first caller
SearchNextFirst == SearchNext(0, 0)

\* what a call that gave r leaves to the second caller
ReturnedToSecond(r) ==
    /\ second' = [second EXCEPT !.search = r.search,
                                !.results = Append(@, r.addr)]
    /\ log' = r.log

\* the call of the second caller made on the search state of the first, as
\* if the driver kept one search state for all its callers
SearchNextSecond_Shared ==
    /\ Len(second.results) < MaxCalls
    /\ ReturnedToSecond(onewire_search_next(search, second.devices, 0, 0))
    /\ search' = second'.search
    /\ op' = "search_next_second"
    /\ arg' = << 0, 0 >>
    /\ ret' = 0
    /\ UNCHANGED << devices, origin, family, results, disturbed >>

\* a call of the second caller: onewire_search_next(&second.search, pin2)
SearchNextSecond ==
    /\ Len(second.results) < MaxCalls
    /\ ReturnedToSecond(onewire_search_next(second.search, second.devices, 0, 0))
    /\ op' = "search_next_second"
    /\ arg' = << 0, 0 >>
    /\ ret' = 0
    /\ UNCHANGED << search, devices, origin, family, results, disturbed >>

TwoNext == SearchNextFirst \/ SearchNextSecond

SpecTwo == TwoInit /\ [][TwoNext]_vars

(***************************************************************************)
(* The operations on the pin.  A behaviour is one call, with any byte as   *)
(* its argument or as the levels the line gives it to read, and after      *)
(* onewire_write the read of the byte back.                                *)
(***************************************************************************)
enumeration == << search, devices, origin, family, results, disturbed, second >>

\* the line levels of eight read slots that give the bits of byte, the least
\* significant bit in the first slot
LevelsOf(byte) == [i \in 1..8 |-> (byte \div Pow2(i - 1)) % 2]

TransportInit ==
    /\ devices = {}
    /\ search = onewire_search_start
    /\ origin = "start"
    /\ family = 0
    /\ results = << >>
    /\ disturbed = FALSE
    /\ second = NoSecond
    /\ op = "none"
    /\ arg \in 0..255
    /\ ret = 0
    /\ log = << >>

\* onewire_reset on a line that is low for the first busy polls and at
\* level when sampled
Reset(busy, level) ==
    /\ op = "none"
    /\ LET r == onewire_reset(busy, level)
       IN  log' = r.log /\ ret' = r.r
    /\ op' = "reset"
    /\ arg' = << busy, level >>
    /\ UNCHANGED enumeration

\* onewire_write_bit(pin, arg)
WriteBit ==
    /\ op = "none"
    /\ log' = onewire_write_bit(arg)
    /\ ret' = 0
    /\ op' = "write_bit"
    /\ UNCHANGED << arg, enumeration >>

ReadBit(level) ==
    /\ op = "none"
    /\ LET r == onewire_read_bit(level)
       IN  log' = r.log /\ ret' = r.r
    /\ op' = "read_bit"
    /\ arg' = level
    /\ UNCHANGED enumeration

\* onewire_write(pin, arg)
Write ==
    /\ op = "none"
    /\ log' = onewire_write(arg)
    /\ ret' = 0
    /\ op' = "write"
    /\ UNCHANGED << arg, enumeration >>

\* onewire_read on a line that gives the bits of arg
Read ==
    /\ op = "none"
    /\ LET r == onewire_read(LevelsOf(arg))
       IN  log' = r.log /\ ret' = r.r
    /\ op' = "read"
    /\ UNCHANGED << arg, enumeration >>

\* the bit a device takes from a write slot: it samples the line 15us to
\* 60us after the falling edge, so the slot carries 1 when the line is low
\* for less than 15us and 0 when it is low for 60us or more
SlotBit(lowTime) == IF lowTime < 15 THEN 1 ELSE 0

\* the bits of the write slots of a log, from the time each slot holds the
\* line low (the delay between its gpio_write(0) and its gpio_write(1))
WrittenBits(l) ==
    LET at == SelectSeq([i \in 1..Len(l) |-> i], LAMBDA i : l[i].ev = "write_bit")
    IN  [k \in 1..Len(at) |-> SlotBit(l[at[k] + 3].arg)]

\* onewire_read on a line that gives back the bits of the byte just written
ReadBack ==
    /\ op = "write"
    /\ LET r == onewire_read(WrittenBits(log))
       IN  log' = r.log /\ ret' = r.r
    /\ op' = "read_back"
    /\ UNCHANGED << arg, enumeration >>

\* the addresses a caller selects
SelectChoices == Universe \cup {<< 1, 2, 3, 4, 5, 6, 7, 8 >>, ONEWIRE_NONE}

\* onewire_select(pin, rom)
Select(rom) ==
    /\ op = "none"
    /\ log' = onewire_select(rom)
    /\ ret' = 0
    /\ op' = "select"
    /\ arg' = rom
    /\ UNCHANGED enumeration

\* onewire_skip_rom(pin)
SkipRom ==
    /\ op = "none"
    /\ log' = onewire_skip_rom
    /\ ret' = 0
    /\ op' = "skip_rom"
    /\ UNCHANGED << arg, enumeration >>

TransportNext ==
    \/ \E busy \in BusyChoices, level \in {0, 1} : Reset(busy, level)
    \/ WriteBit
    \/ \E level \in {0, 1} : ReadBit(level)
    \/ Write
    \/ Read
    \/ ReadBack
    \/ \E rom \in SelectChoices : Select(rom)
    \/ SkipRom

SpecTransport == TransportInit /\ [][TransportNext]_vars

(***************************************************************************)
(* Properties of the enumeration.                                          *)
(***************************************************************************)
\* the family code of an address: its least significant byte
FamilyOf(addr) == AddrLowByte(addr)

NonzeroFamilies == \A d \in devices : FamilyOf(d) # 0

\* the enumeration was set up by onewire_search_start and no device left
FreshAndStable == origin = "start" /\ ~disturbed

\* a is before b in the order of the bit sequences from bit position 1 to
\* bit position 64, with 0 before 1
LexLess(a, b) ==
    \E n \in 1..64 :
        /\ DeviceBit(a, n) = 0
        /\ DeviceBit(b, n) = 1
        /\ \A k \in 1..(n - 1) : DeviceBit(a, k) = DeviceBit(b, k)

\* the calls return every address of the bus once, and then "no device"
EnumeratesAll ==
    LET n == Cardinality(devices)
        m == Len(results)
    IN  /\ \A k \in 1..m : k <= n => results[k] \in devices
        /\ \A i, j \in 1..m : (i < j /\ j <= n) => results[i] # results[j]
        /\ m >= n + 1 => results[n + 1] = ONEWIRE_NONE

\* C1 as stated: on a bus with a fixed set of N distinct addresses, the calls
\* after onewire_search_start return each of the N addresses exactly once and
\* "no device" on call N+1
C1_AnyAddresses == FreshAndStable => EnumeratesAll

\* C1, amended: the same, on a bus none of whose addresses has a zero family
\* code (such an address is never returned: the call that walks to it
\* returns "no device" and resets the search)
C1_EnumeratesAll == (FreshAndStable /\ NonzeroFamilies) => EnumeratesAll

C1_Witness ==
    /\ FreshAndStable /\ NonzeroFamilies
    /\ Cardinality(devices) = 2
    /\ Len(results) = 3
    /\ results[3] = ONEWIRE_NONE

\* C2: in an enumeration from a fresh search state the addresses come in
\* ascending order of their bit sequences from bit position 1 to 64, 0
\* before 1: of two addresses returned with no "no device" between them, the
\* earlier one is the smaller
C2_AscendingBitOrder ==
    origin = "start" =>
        \A i, j \in 1..Len(results) :
            (i < j /\ \A k \in i..j : results[k] # ONEWIRE_NONE)
                => LexLess(results[i], results[j])

C2_Witness ==
    /\ FreshAndStable
    /\ Len(results) >= 2
    /\ results[1] # ONEWIRE_NONE
    /\ results[2] # ONEWIRE_NONE
    /\ \E n \in 9..64 : DeviceBit(results[1], n) # DeviceBit(results[2], n)
                        /\ \A k \in 1..(n - 1) :
                              DeviceBit(results[1], k) = DeviceBit(results[2], k)

\* C3 as stated: once a device and then "no device" were returned, every
\* further call returns "no device" until the state is set up again
C3_StaysExhausted ==
    FreshAndStable =>
        \A k \in 2..Len(results) :
            (results[k - 1] = ONEWIRE_NONE /\ \E i \in 1..(k - 1) : results[i] # ONEWIRE_NONE)
                => results[k] = ONEWIRE_NONE

\* C3, amended: after the last device the next call returns "no device" and
\* resets the search state (last_discrepancy = 0, last_device_found = false),
\* so the state reads as exhausted for that one call only: the call after it
\* begins the enumeration again and returns what the first call returned
C3_ExhaustedForOneCall ==
    FreshAndStable =>
        \A k \in 2..Len(results) :
            (results[k] = ONEWIRE_NONE /\ results[k - 1] # ONEWIRE_NONE)
                => /\ k = Len(results) =>
                        (search.last_discrepancy = 0 /\ ~search.last_device_found)
                   /\ k < Len(results) => results[k + 1] = results[1]

C3_Witness ==
    /\ FreshAndStable
    /\ Cardinality(devices) = 2
    /\ Len(results) = 4
    /\ results[2] # ONEWIRE_NONE
    /\ results[3] = ONEWIRE_NONE
    /\ results[4] = results[1]
    /\ results[4] # ONEWIRE_NONE

\* C4: on a bus without devices onewire_reset reports no presence and
\* onewire_search_next returns "no device" without a Search ROM command
\* byte and without a read-bit or write-bit slot
C4_EmptyBusNoWalk ==
    (op = "search_next" /\ devices = {}) =>
        /\ results[Len(results)] = ONEWIRE_NONE
        /\ Only(log, "reset") = << Ev("reset", 0) >>
        /\ Only(log, "write") = << >>
        /\ Only(log, "read_bit") = << >>
        /\ Only(log, "write_bit") = << >>

C4_Witness ==
    /\ op = "search_next" /\ devices = {}
    /\ FreshAndStable
    /\ Len(results) = 1
    /\ \E i \in 1..Len(log) : log[i] = Ev("delay_us", 480)

\* C12: after any calls of onewire_search_start, onewire_search_prefix and
\* onewire_search_next, whatever the bus answered, last_discrepancy is
\* between 0 and 64
C12_DiscrepancyRange == search.last_discrepancy \in 0..64

C12_Witness ==
    /\ op = "search_next"
    /\ search.last_discrepancy \in 49..64
    /\ ~search.last_device_found

\* what the next st.n calls of onewire_search_next return from the search
\* state st.search on an undisturbed bus with the devices devs, after st.out
RECURSIVE RunFrom(_, _)
RunFrom(st, devs) ==
    IF st.n = 0 THEN st.out
    ELSE LET r == onewire_search_next(st.search, devs, 0, 0)
         IN  RunFrom([search |-> r.search, out |-> Append(st.out, r.addr),
                      n |-> st.n - 1], devs)

\* what n calls return from the search state s
Results(s, devs, n) == RunFrom([search |-> s, out |-> << >>, n |-> n], devs)

\* C13: a call of onewire_search_next that returns "no device" leaves
\* last_discrepancy = 0 and last_device_found = false, and the calls after
\* it return what they return after onewire_search_start on the same bus
C13_NoDeviceStartsOver ==
    (op = "search_next" /\ results[Len(results)] = ONEWIRE_NONE) =>
        /\ search.last_discrepancy = 0
        /\ ~search.last_device_found
        /\ Results(search, devices, MaxCalls)
              = Results(onewire_search_start, devices, MaxCalls)

\* the devices stopped answering at bit 9 of the second walk of an enumeration
C13_Witness ==
    /\ op = "search_next"
    /\ arg = << 0, 9 >>
    /\ Len(results) = 2
    /\ results[1] # ONEWIRE_NONE
    /\ results[2] = ONEWIRE_NONE
    /\ search.rom_no # onewire_search_start.rom_no
    /\ Cardinality(devices) = 2

\* the first call after onewire_search_prefix(family) was made on an
\* undisturbed bus that has a device of that family
FirstAfterPrefix ==
    /\ origin = "prefix"
    /\ op = "search_next"
    /\ Len(results) = 1
    /\ ~disturbed
    /\ \E d \in devices : FamilyOf(d) = family

\* C14 as stated: the first call after onewire_search_prefix(family_code)
\* returns a device of that family when the bus has one
C14_AnyFamily ==
    FirstAfterPrefix => (results[1] \in devices /\ FamilyOf(results[1]) = family)

\* C14, amended: the same for a family code other than 0; for family code 0
\* the call returns "no device"
C14_PrefixFindsFamily ==
    FirstAfterPrefix =>
        IF family # 0
        THEN results[1] \in devices /\ FamilyOf(results[1]) = family
        ELSE results[1] = ONEWIRE_NONE

\* a device of the family asked for is found on a bus that has a device of
\* another family whose bits come first in the search order
C14_Witness ==
    /\ FirstAfterPrefix
    /\ family = 40
    /\ FamilyOf(results[1]) = 40
    /\ \E d \in devices : FamilyOf(d) = 16

C17_ExhaustedTouchesNothing ==
    [][(op' = "search_next" /\ search.last_device_found)
          => (log' = << >> /\ results' = Append(results, ONEWIRE_NONE))]_vars

C17_Witness ==
    /\ op = "search_next"
    /\ log = << >>
    /\ Len(results) = 2
    /\ results[1] # ONEWIRE_NONE
    /\ results[2] = ONEWIRE_NONE

\* the walk of a call ended at two read slots that both read 1: the log has
\* two read slots more than twice the write slots after the command byte
Aborted(l) ==
    LET rb == Only(l, "read_bit")
        n  == Len(rb)
    IN  /\ n >= 2
        /\ rb[n].arg = 1
        /\ rb[n - 1].arg = 1
        /\ n = 2 * (Len(Only(l, "write_bit")) - 8) + 2

\* C19 as stated: a call whose walk is aborted leaves last_discrepancy as it
\* was before the call
C19_DiscrepancyKept ==
    [][(op' = "search_next" /\ Aborted(log'))
          => search'.last_discrepancy = search.last_discrepancy]_vars

\* C19, amended: a call whose walk is aborted returns "no device" and leaves
\* last_discrepancy = 0 and last_device_found = false, whatever they were
\* before the call
C19_AbortResets ==
    [][(op' = "search_next" /\ Aborted(log'))
          => /\ results' = Append(results, ONEWIRE_NONE)
             /\ search'.last_discrepancy = 0
             /\ ~search'.last_device_found]_vars

\* the devices stopped answering at bit 64 of the second walk of an
\* enumeration of two devices, which began with a last_discrepancy other
\* than 0
C19_Witness ==
    /\ op = "search_next"
    /\ Aborted(log)
    /\ arg = << 0, 64 >>
    /\ Cardinality(devices) = 2
    /\ NonzeroFamilies
    /\ Len(results) = 2
    /\ results[1] # ONEWIRE_NONE
    /\ search.last_discrepancy = 0

\* the walk of a call went through all 64 bit positions
Completed(l) == Len(Only(l, "write_bit")) = 8 + 64

\* C20: a call whose walk went through all 64 positions returns "no device"
\* and resets the search state when byte 0 of the ROM buffer is 0, and
\* otherwise returns the address whose byte i, counted from the least
\* significant one, is byte i of the ROM buffer
C20_ZeroFamilyOrAddress ==
    (op = "search_next" /\ Completed(log)) =>
        LET addr == results[Len(results)]
        IN  IF search.rom_no[1] = 0
            THEN /\ addr = ONEWIRE_NONE
                 /\ search.last_discrepancy = 0
                 /\ ~search.last_device_found
            ELSE \A i \in 0..7 : addr[ROM_BYTES - i] = search.rom_no[i + 1]

\* the walk ended at a device of family 0 while another device is on the bus
C20_Witness ==
    /\ op = "search_next"
    /\ Completed(log)
    /\ search.rom_no[1] = 0
    /\ search.rom_no[2] # 0
    /\ Cardinality(devices) = 2
    /\ Len(results) = 1
    /\ results[1] = ONEWIRE_NONE

(***************************************************************************)
(* The codecs.  A behaviour is one call on an input drawn at the start.    *)
(***************************************************************************)
\* the largest number of bytes of an input drawn from CrcBytes
MaxCrcLen == 3

CrcBytes == {0, 1, 140, 255}

SeqsUpTo(S, n) == UNION {[1..k -> S] : k \in 0..n}

\* the inputs of onewire_crc8: every input of one or two bytes, and the
\* longer ones over CrcBytes
Crc8Inputs == SeqsUpTo(0..255, 2) \cup SeqsUpTo(CrcBytes, MaxCrcLen)

Crc8Init ==
    /\ devices = {}
    /\ search = onewire_search_start
    /\ origin = "start"
    /\ family = 0
    /\ results = << >>
    /\ disturbed = FALSE
    /\ second = NoSecond
    /\ op = "none"
    /\ arg \in Crc8Inputs
    /\ ret = 0
    /\ log = << >>

\* onewire_crc8(arg, Len(arg)) as built with and without ONEWIRE_CRC8_TABLE
Crc8 ==
    /\ op = "none"
    /\ op' = "crc8"
    /\ ret' = [table |-> onewire_crc8_table(arg), bitwise |-> onewire_crc8_bitwise(arg)]
    /\ UNCHANGED << arg, log, enumeration >>

SpecCrc8 == Crc8Init /\ [][Crc8]_vars

\* what a device computes over the bytes it sent: the CRC-16 of the 1-Wire
\* devices, bit by bit, least significant bit first
RECURSIVE DeviceCrc16Bits(_)
DeviceCrc16Bits(st) ==
    IF st[2] = 0 THEN st[1]
    ELSE DeviceCrc16Bits(<< IF st[1] % 2 = 1 THEN BitXor(st[1] \div 2, 40961)
                            ELSE st[1] \div 2,
                            st[2] - 1 >>)

RECURSIVE DeviceCrc16(_, _)
DeviceCrc16(st, input) ==
    IF st[1] > Len(input) THEN st[2]
    ELSE DeviceCrc16(<< st[1] + 1,
                        DeviceCrc16Bits(<< BitXor(st[2], input[st[1]]), 8 >>) >>, input)

\* the two CRC bytes as the device sends them: the CRC inverted, low byte first
OnWire(crc) == << (65535 - crc) % 256, (65535 - crc) \div 256 >>

\* the two CRC bytes a caller may have received for input and seed: the
\* bytes sent, the same in the other order, either byte changed, and the
\* bytes of the CRC not inverted
Received(input, seed) ==
    LET sent == OnWire(DeviceCrc16(<< 1, seed >>, input))
    IN  { sent,
          << sent[2], sent[1] >>,
          << (sent[1] + 1) % 256, sent[2] >>,
          << sent[1], (sent[2] + 128) % 256 >>,
          << 255 - sent[1], 255 - sent[2] >> }

Seeds == {0, 1, 40961, 65535}

Crc16Init ==
    /\ devices = {}
    /\ search = onewire_search_start
    /\ origin = "start"
    /\ family = 0
    /\ results = << >>
    /\ disturbed = FALSE
    /\ second = NoSecond
    /\ op = "none"
    /\ \E input \in SeqsUpTo(CrcBytes, MaxCrcLen), seed \in Seeds :
          \E len \in 0..Len(input) :
              \E inverted_crc \in Received(SubSeq(input, 1, len), seed) :
                  arg = [input |-> input, len |-> len, seed |-> seed,
                         inverted_crc |-> inverted_crc]
    /\ ret = 0
    /\ log = << >>

\* onewire_crc16(arg.input, arg.len, arg.seed)
Crc16 ==
    /\ op = "none"
    /\ op' = "crc16"
    /\ ret' = onewire_crc16(arg.input, arg.len, arg.seed)
    /\ UNCHANGED << arg, log, enumeration >>

\* onewire_check_crc16(arg.input, arg.len, arg.inverted_crc, arg.seed)
CheckCrc16 ==
    /\ op = "none"
    /\ op' = "check_crc16"
    /\ ret' = onewire_check_crc16(arg.input, arg.len, arg.inverted_crc, arg.seed)
    /\ UNCHANGED << arg, log, enumeration >>

SpecCrc16 == Crc16Init /\ [][Crc16 \/ CheckCrc16]_vars

\* the inputs and seeds onewire_crc16 is compared with the reference on:
\* one byte on every 16-bit seed, every byte on the seeds of Seeds, ten zero
\* bytes on seed 0, and the inputs over CrcBytes on the seeds of Seeds
Crc16RefInputs ==
    ({<< 0 >>, << 165 >>} \X (0..65535))
    \cup ({<< b >> : b \in 0..255} \X Seeds)
    \cup {<< [i \in 1..10 |-> 0], 0 >>}
    \cup (SeqsUpTo(CrcBytes, MaxCrcLen) \X Seeds)

Crc16RefInit ==
    /\ devices = {}
    /\ search = onewire_search_start
    /\ origin = "start"
    /\ family = 0
    /\ results = << >>
    /\ disturbed = FALSE
    /\ second = NoSecond
    /\ op = "none"
    /\ \E c \in Crc16RefInputs : arg = [input |-> c[1], len |-> Len(c[1]), seed |-> c[2]]
    /\ ret = 0
    /\ log = << >>

\* onewire_crc16(arg.input, arg.len, arg.seed), and what a device computes
\* over the same bytes from the same starting value
Crc16Ref ==
    /\ op = "none"
    /\ op' = "crc16_ref"
    /\ ret' = [crc16 |-> onewire_crc16(arg.input, arg.len, arg.seed),
               reference |-> DeviceCrc16(<< 1, arg.seed >>, arg.input)]
    /\ UNCHANGED << arg, log, enumeration >>

SpecCrc16Ref == Crc16RefInit /\ [][Crc16Ref]_vars

(***************************************************************************)
(* The whole driver: the operations on the pin and the enumeration.        *)
(***************************************************************************)
SpecDriver == (Init \/ TransportInit) /\ [][Next \/ TransportNext]_vars

(***************************************************************************)
(* Properties of the transport and of the reset.                           *)
(***************************************************************************)
\* the sum of the numbers s[lo], .., s[hi]
RECURSIVE SumRange(_, _, _)
SumRange(s, lo, hi) ==
    IF lo > hi THEN 0
    ELSE IF lo = hi THEN s[lo]
    ELSE LET mid == (lo + hi) \div 2
         IN  SumRange(s, lo, mid) + SumRange(s, mid + 1, hi)

\* the delays of a log, and the time it takes
Delays(l) == Args(Only(l, "delay_us"))
Duration(l) == SumRange(Delays(l), 1, Len(Delays(l)))

\* C5 as stated: a write slot takes the same time whether 1 or 0 is written:
\* the slot just written lasts as long as the slot of the other bit value
C5_SameDuration ==
    op = "write_bit" => Duration(log) = Duration(onewire_write_bit(arg + 1))

\* C5, amended: the slot of onewire_write_bit lasts 65us when 1 is written
\* (10us driven low, 55us released) and 70us when 0 is written (65us driven
\* low, 5us released)
C5_SlotDurations ==
    op = "write_bit" =>
        IF arg % 2 = 1
        THEN Delays(log) = << 10, 55 >> /\ Duration(log) = 65
        ELSE Delays(log) = << 65, 5 >> /\ Duration(log) = 70

C5_Witness == op = "write_bit" /\ arg % 2 = 0 /\ Duration(log) = 70

\* the idle wait of a reset ended with the line high
PastIdleWait(l) ==
    \E i \in 1..(Len(l) - 1) : l[i] = Ev("delay_us", 2) /\ l[i + 1] = Ev("gpio_read", 1)

\* the pin and delay calls of a log, without its markers and critical sections
PinCalls(l) ==
    SelectSeq(l, LAMBDA x : x.ev \in {"gpio_write", "gpio_read", "delay_us"})

\* C6: a reset that gets past the idle wait drives the line low for 480us,
\* releases it, waits 70us, samples and then waits 410us before it returns,
\* with or without presence; only the early return of the idle wait has no
\* 410us delay
C6_ResetRecovery ==
    op = "reset" =>
        LET p == PinCalls(log)
            n == Len(p)
        IN  IF PastIdleWait(log)
            THEN /\ n >= 6
                 /\ SubSeq(p, n - 5, n) =
                        << Ev("gpio_write", 0), Ev("delay_us", 480),
                           Ev("gpio_write", 1), Ev("delay_us", 70),
                           Ev("gpio_read", arg[2]), Ev("delay_us", 410) >>
                 /\ log[Len(log)] = Ev("delay_us", 410)
            ELSE /\ arg[1] >= RETRIES - 1
                 /\ ret = 0
                 /\ \A i \in 1..n : p[i] \notin {Ev("delay_us", 410), Ev("delay_us", 480)}

C6_Witness ==
    /\ op = "reset"
    /\ arg = << RETRIES - 2, 1 >>
    /\ ret = 0
    /\ PastIdleWait(log)
    /\ log[Len(log)] = Ev("delay_us", 410)

\* the polls of the idle wait of a reset: the positions of its log where
\* the line is read after a delay of 2us
IdlePolls(l) ==
    {i \in 2..Len(l) : l[i].ev = "gpio_read" /\ l[i - 1] = Ev("delay_us", 2)}

\* C18: onewire_reset polls the released line at most 125 times, 2us apart
\* (at most 250us); when every poll found the line low it returns 0 without
\* the 480us pulse; otherwise it returns 1 exactly when the line is low at
\* the sample taken 70us after the release that ends the pulse
C18_ResetIdleBound ==
    op = "reset" =>
        LET polls == IdlePolls(log)
            n == Cardinality(polls)
        IN  /\ n <= 125
            /\ 2 * n <= 250
            /\ IF \A i \in polls : log[i].arg = 0
               THEN /\ ret = 0
                    /\ \A i \in 1..Len(log) :
                          log[i] \notin {Ev("gpio_write", 0), Ev("delay_us", 480)}
               ELSE /\ ret = (IF arg[2] = 0 THEN 1 ELSE 0)
                    /\ \E i \in 1..(Len(log) - 5) :
                          /\ log[i] = Ev("gpio_write", 0)
                          /\ log[i + 1] = Ev("delay_us", 480)
                          /\ log[i + 3] = Ev("gpio_write", 1)
                          /\ log[i + 4] = Ev("delay_us", 70)
                          /\ log[i + 5] = Ev("gpio_read", arg[2])

\* the line is low for longer than the bound
C18_Witness ==
    /\ op = "reset"
    /\ arg = << 2 * RETRIES, 0 >>
    /\ ret = 0
    /\ Cardinality(IdlePolls(log)) = RETRIES - 1
    /\ log[Len(log)] = Ev("gpio_read", 0)

\* the critical-section calls of a log come in pairs: enter, exit, enter, ..
Paired(l) ==
    LET seq == SelectSeq(l, LAMBDA x : x.ev \in {"noInterrupts", "interrupts"})
    IN  /\ Len(seq) % 2 = 0
        /\ \A k \in 1..Len(seq) :
              seq[k].ev = IF k % 2 = 1 THEN "noInterrupts" ELSE "interrupts"

\* call i of the log is made with preemption suspended
Inside(l, i) ==
    \E j \in (IF i > 6 THEN i - 6 ELSE 1)..(i - 1) :
        /\ l[j].ev = "noInterrupts"
        /\ \A k \in (j + 1)..(i - 1) : l[k].ev # "interrupts"

\* the pin calls of a reset before its timed window: the first release, the
\* polls of the idle wait and the start of the reset pulse
Untimed(l, i) ==
    \/ l[i - 1].ev = "gpio_enable_open_drain"
    \/ l[i].ev = "gpio_read" /\ l[i - 1] = Ev("delay_us", 2)
    \/ l[i] = Ev("gpio_write", 0) /\ i < Len(l) /\ l[i + 1] = Ev("delay_us", 480)

\* C7: in whatever an operation does on the pin the critical-section calls
\* are paired, so it returns with preemption allowed, and every write and
\* sample of a bit slot and the release and sample of a reset are made with
\* preemption suspended
C7_CriticalSections ==
    /\ Paired(log)
    /\ \A i \in 2..Len(log) :
          (log[i].ev \in {"gpio_write", "gpio_read"} /\ ~Untimed(log, i))
              => Inside(log, i)

C7_Witness ==
    /\ op = "search_next"
    /\ Len(Only(log, "reset")) = 1
    /\ Len(Only(log, "read_bit")) = 128
    /\ \E i \in 1..Len(log) : log[i] = Ev("write_bit", 0)
    /\ \E i \in 1..Len(log) : log[i] = Ev("write_bit", 1)
    /\ Len(Only(log, "noInterrupts")) = 1 + 8 + 128 + 64

\* C10: onewire_write makes eight write slots, slot i with bit i of the
\* byte; onewire_read makes eight read slots and returns the byte whose bit
\* i is the level of slot i; a byte read from the bits onewire_write sent is
\* the byte written
C10_ByteTransport ==
    /\ op = "write" =>
          /\ Len(Only(log, "write_bit")) = 8
          /\ Len(Only(log, "read_bit")) = 0
          /\ WrittenBits(log) = LevelsOf(arg)
    /\ op = "read" =>
          /\ Len(Only(log, "read_bit")) = 8
          /\ Len(Only(log, "write_bit")) = 0
          /\ Args(Only(log, "gpio_read")) = LevelsOf(arg)
          /\ ret = arg
    /\ op = "read_back" =>
          /\ Len(Only(log, "read_bit")) = 8
          /\ ret = arg

C10_Witness == op = "read_back" /\ arg = 165 /\ ret = 165

(***************************************************************************)
(* Properties of the codecs.                                               *)
(***************************************************************************)
\* C8: the table-driven and the bit-looped onewire_crc8 return the same
\* value for every input; for the input of the single byte i that value is
\* dscrc_table[i]
C8_TableEqualsBitLoop ==
    op = "crc8" =>
        /\ ret.table = ret.bitwise
        /\ Len(arg) = 1 => ret.bitwise = dscrc_table[arg[1] + 1]

C8_Witness ==
    /\ op = "crc8"
    /\ Len(arg) = 2
    /\ arg[1] = 255
    /\ ret.table = ret.bitwise
    /\ ret.table # 0

\* C9: onewire_check_crc16 returns true exactly when inverted_crc[0] is the
\* low byte and inverted_crc[1] the high byte of the 16-bit inverse of
\* onewire_crc16 of the input and seed; so it returns true for the two bytes
\* a device sends after the same data
C9_CheckCrc16 ==
    op = "check_crc16" =>
        LET inv == 65535 - onewire_crc16(arg.input, arg.len, arg.seed)
        IN  /\ ret = (arg.inverted_crc[1] = inv % 256 /\ arg.inverted_crc[2] = inv \div 256)
            /\ arg.inverted_crc = OnWire(onewire_crc16(arg.input, arg.len, arg.seed)) => ret

C9_Witness ==
    /\ op = "check_crc16"
    /\ ret = TRUE
    /\ arg.len = 3
    /\ arg.seed = 40961
    /\ arg.inverted_crc[1] # arg.inverted_crc[2]
    /\ Len(arg.input) = 3
    /\ arg.inverted_crc = OnWire(DeviceCrc16(<< 1, arg.seed >>, arg.input))

(***************************************************************************)
(* Properties of the ROM commands.                                         *)
(***************************************************************************)
\* the bytes a device assembles from the write slots of a log, eight slots
\* to a byte, the first slot as the least significant bit
BytesOnWire(l) ==
    LET bits == WrittenBits(l)
    IN  [k \in 1..(Len(bits) \div 8) |->
            bits[8 * k - 7] + 2 * bits[8 * k - 6] + 4 * bits[8 * k - 5]
            + 8 * bits[8 * k - 4] + 16 * bits[8 * k - 3] + 32 * bits[8 * k - 2]
            + 64 * bits[8 * k - 1] + 128 * bits[8 * k]]

\* C11: onewire_select writes 9 bytes: 0x55, then the 8 bytes of the address
\* from the least significant to the most significant; onewire_skip_rom
\* writes the one byte 0xCC
C11_RomCommands ==
    /\ op = "select" =>
          /\ Len(WrittenBits(log)) = 72
          /\ Args(Only(log, "write")) = BytesOnWire(log)
          /\ BytesOnWire(log) = << 85 >> \o [i \in 1..8 |-> arg[9 - i]]
    /\ op = "skip_rom" =>
          /\ Len(WrittenBits(log)) = 8
          /\ BytesOnWire(log) = << 204 >>

C11_Witness ==
    /\ op = "select"
    /\ arg = << 1, 2, 3, 4, 5, 6, 7, 8 >>
    /\ BytesOnWire(log) = << 85, 8, 7, 6, 5, 4, 3, 2, 1 >>

\* C15: onewire_crc16 gives what the bit-by-bit CRC-16 of the 1-Wire
\* devices (polynomial 0xA001 reflected, least significant bit first, not
\* inverted) gives, one byte step on every 16-bit value and longer inputs
\* alike; ten zero bytes from seed 0 give 0
C15_Crc16IsReference ==
    op = "crc16_ref" =>
        /\ ret.crc16 = ret.reference
        /\ (arg.len = 10 /\ arg.seed = 0) => ret.crc16 = 0

C15_Witness ==
    /\ op = "crc16_ref"
    /\ arg.input = << 165 >>
    /\ arg.seed = 65535
    /\ ret.crc16 = ret.reference
    /\ ret.crc16 # 0

\* the time slots of a log, in the order they were run
Slots(l) == SelectSeq(l, LAMBDA e : e.ev \in {"read_bit", "write_bit"})

\* the time slots of a call of onewire_search_next after the eight slots of
\* its command byte
WalkSlots(l) == SubSeq(Slots(l), 9, Len(Slots(l)))

\* the number of bit positions a walk with the slots sl went into
Positions(sl) == (Len(sl) + 1) \div 3

\* a walk is a row of  read, read, write  that may end after two reads
WalkShape(sl) ==
    /\ Len(sl) % 3 # 1
    /\ \A k \in 1..Len(sl) :
          sl[k].ev = (IF k % 3 = 0 THEN "write_bit" ELSE "read_bit")

\* some position of the walk read 1 for the bit and for its complement
BothOne(sl) ==
    \E n \in 1..Positions(sl) : sl[3 * n - 2].arg = 1 /\ sl[3 * n - 1].arg = 1

\* C21: a call of onewire_search_next ends (it is one step of the model,
\* computed by a walk of at most 64 rounds after a reset of at most 124
\* polls) having run at most one reset, at most one command byte, which is
\* 0xF0 and comes before every other slot, and at most 64 bit positions of
\* two read slots followed by at most one write slot;  its search_result is 1
\* exactly when all 64 positions were gone through and none read 1 twice,
\* and only such a call returns an address
C21_BoundedWalk ==
    op = "search_next" =>
        LET sl == WalkSlots(log)
        IN  /\ Len(Only(log, "reset")) <= 1
            /\ Only(log, "write") \in {<< >>, << Ev("write", 240) >>}
            /\ Only(log, "write") = << >> => Slots(log) = << >>
            /\ Only(log, "write") # << >> =>
                  /\ Len(Only(log, "reset")) = 1
                  /\ Len(Slots(log)) >= 8
                  /\ \A k \in 1..8 : Slots(log)[k].ev = "write_bit"
            /\ WalkShape(sl)
            /\ Positions(sl) <= 64
            /\ (ret = 1) <=> (Positions(sl) = 64 /\ ~BothOne(sl))
            /\ results[Len(results)] # ONEWIRE_NONE => ret = 1

\* a call on a bus with two devices went through all 64 positions, one of
\* them a discrepancy
C21_Witness ==
    /\ op = "search_next"
    /\ ret = 1
    /\ Cardinality(devices) = 2
    /\ Len(WalkSlots(log)) = 3 * 64
    /\ \E n \in 1..64 : WalkSlots(log)[3 * n - 2].arg = 0
                        /\ WalkSlots(log)[3 * n - 1].arg = 0

\* the 64 bits a log puts on the bus after the eight bits of its command byte
BitsAfterCommand(l) == SubSeq(WrittenBits(l), 9, Len(WrittenBits(l)))

\* C22: for every address a call of onewire_search_next returns, the 64 bits
\* onewire_select puts on the bus for that address after the command 0x55
\* are, slot by slot, the 64 direction bits the call wrote during its walk
\* after the command 0xF0, position 1 first
C22_SelectReplaysWalk ==
    (op = "search_next" /\ results[Len(results)] # ONEWIRE_NONE) =>
        LET addr == results[Len(results)]
        IN  /\ BytesOnWire(log)[1] = 240
            /\ BytesOnWire(onewire_select(addr))[1] = 85
            /\ Len(BitsAfterCommand(log)) = 64
            /\ BitsAfterCommand(onewire_select(addr)) = BitsAfterCommand(log)

\* the second call on a bus with two devices returned the second address,
\* whose walk wrote zeros and ones and took the 1 at a discrepancy
C22_Witness ==
    /\ op = "search_next"
    /\ Cardinality(devices) = 2
    /\ Len(results) = 2
    /\ results[1] # ONEWIRE_NONE
    /\ results[2] # ONEWIRE_NONE
    /\ \E n \in 1..64 : /\ WalkSlots(log)[3 * n - 2].arg = 0
                        /\ WalkSlots(log)[3 * n - 1].arg = 0
                        /\ BitsAfterCommand(log)[n] = 1
    /\ \E n \in 1..64 : BitsAfterCommand(log)[n] = 0

====
